---- MODULE Spec2Model ----
(***************************************************************************)
(* OptionGreeksToolbox (src/OptionGreeksToolbox.py): Black-Scholes call    *)
(* and put pricers, the price dispatcher, the implied-volatility solver    *)
(* (scipy.optimize.newton without fprime: the secant method) and the four  *)
(* finite-difference Greeks.                                               *)
(*                                                                         *)
(* Numbers.  The code computes in binary floating point; the model         *)
(* computes the same formulas in decimal fixed point:                      *)
(*   spot, strike            units of 1e-4   (SpotScale   = 10^4)          *)
(*   volatility              units of 1e-5   (SigmaScale  = 10^5)          *)
(*   maturity                trading days    (1/252 year)                  *)
(*   rate, d1, d2, ln, exp, sqrt, Phi   units of 1e-6  (Q = 10^6)          *)
(*   prices, market prices   units of 1e-7   (PriceScale  = 10^7)          *)
(* A pricer evaluation outside the domain of the formula (log, square root *)
(* or division hitting a non-positive or zero operand) is the value NaN.   *)
(***************************************************************************)
EXTENDS Integers, Sequences, FiniteSets, TLC

----------------------------------------------------------------------------
(* Fixed-point arithmetic *)

Q == 1000000

Abs(x) == IF x < 0 THEN -x ELSE x

Sgn(x) == IF x < 0 THEN -1 ELSE IF x > 0 THEN 1 ELSE 0

\* a*b/10^6 rounded to nearest, for 0 <= a <= 2.1e9, 0 <= b <= 10^6 or
\* 0 <= a, b <= 4.6e7, by limbs of 1000, so that no intermediate exceeds 2^31.
MulQAbs(a, b) ==
    LET ah == a \div 1000
        al == a % 1000
        bh == b \div 1000
        bl == b % 1000
        m  == ah * bl + al * bh
    IN  ah * bh + (m \div 1000) + (((m % 1000) * 1000 + al * bl + (Q \div 2)) \div Q)

\* Signed product of two Q-scaled numbers.
MulQ(a, b) == Sgn(a) * Sgn(b) * MulQAbs(Abs(a), Abs(b))

\* a*b/1000 for 0 <= a <= 2e6, 0 <= b <= 10^6.
MulK(a, b) == a * (b \div 1000) + ((a * (b % 1000)) \div 1000)

RECURSIVE DivDigits(_, _, _)
\* The first n decimal digits of r/b after the point, for 0 <= r < b <= 2e8.
DivDigits(r, b, n) ==
    IF n = 0 THEN 0
    ELSE LET r10 == r * 10
         IN  (r10 \div b) * (10 ^ (n - 1)) + DivDigits(r10 % b, b, n - 1)

\* a/b as a Q-scaled number (rounded toward zero), b # 0.
DivQ(a, b) ==
    LET x == Abs(a)
        y == Abs(b)
    IN  Sgn(a) * Sgn(b) * ((x \div y) * Q + DivDigits(x % y, y, 6))

----------------------------------------------------------------------------
(* The numerical library functions the pricers call: np.log, np.exp,       *)
(* np.sqrt and scipy.stats.norm.cdf, on Q-scaled numbers.                  *)

Ln2 == 693147

RECURSIVE LnReduce(_, _)
\* y = m * 2^k with Q <= m < 2Q.
LnReduce(y, k) ==
    IF y >= 2 * Q THEN LnReduce(y \div 2, k + 1)
    ELSE IF y < Q THEN LnReduce(y * 2, k - 1)
    ELSE [m |-> y, k |-> k]

RECURSIVE LnSeries(_, _, _)
\* z + z^3/3 + z^5/5 + ... from the term zp = z^n on.
LnSeries(zp, z2, n) ==
    IF zp = 0 THEN 0 ELSE (zp \div n) + LnSeries(MulQ(zp, z2), z2, n + 2)

\* 2 atanh(z)
LnAtanh(z) == 2 * LnSeries(z, MulQ(z, z), 1)

\* ln(m * 2^k) = k ln 2 + 2 atanh((m - 1)/(m + 1))
LnOf(red) == red.k * Ln2 + LnAtanh(DivQ(red.m - Q, red.m + Q))

\* np.log(y) for y > 0.
Ln(y) == LnOf(LnReduce(y, 0))

RECURSIVE ExpSeries(_, _, _)
\* 1 + x + x^2/2! + ... from the term x^(n-1)/(n-1)! on.
ExpSeries(term, x, n) ==
    IF term = 0 THEN 0 ELSE term + ExpSeries(MulQ(term, x) \div n, x, n + 1)

\* 2^k * e
ExpScale(k, e) ==
    IF k >= 0 THEN e * (2 ^ k)
    ELSE IF k < -30 THEN 0
    ELSE e \div (2 ^ (-k))

\* np.exp(x): e^x = 2^k e^rem with 0 <= rem < ln 2.
Exp(x) == ExpScale(x \div Ln2, ExpSeries(Q, x % Ln2, 1))

RECURSIVE SqrtIter(_, _)
\* Heron's iteration, decreasing from a start above the root.
SqrtIter(t, s) ==
    LET n == (s + DivQ(t, s)) \div 2
    IN  IF n >= s THEN s ELSE SqrtIter(t, n)

\* np.sqrt(t) for t >= 0.
Sqrt(t) == IF t = 0 THEN 0 ELSE SqrtIter(t, IF t > Q THEN t ELSE Q)

\* Beyond +-PhiSat the normal distribution function is 1 or 0 at this scale.
PhiSat == 6000000

\* b1 t + b2 t^2 + ... + b5 t^5
PhiPoly(t) ==
    MulQ(t, 319382 + MulQ(t, -356564 + MulQ(t, 1781478
              + MulQ(t, -1821256 + MulQ(t, 1330274)))))

\* The normal density, exp(-x^2 / 2) / sqrt(2 pi).
PhiPdf(x) == MulQ(398942, Exp(-(MulQ(x, x) \div 2)))

\* norm.cdf(x) for x >= 0: 1 - pdf(x) * (b1 t + ... + b5 t^5),
\* t = 1/(1 + 0.2316419 x).
PhiPos(x) ==
    IF x >= PhiSat THEN Q
    ELSE Q - MulQ(PhiPdf(x), PhiPoly(DivQ(Q, Q + MulQ(231642, x))))

\* norm.cdf(x); the library computes the lower tail from the upper one.
Phi(x) == IF x < 0 THEN Q - PhiPos(-x) ELSE PhiPos(x)

----------------------------------------------------------------------------
(* The pricers: black_scholes_european_call / black_scholes_european_put   *)

\* The float nan, as a value outside the range of every price.
NaN == -2147483647

\* The floats +inf and -inf for d1 and d2: norm.cdf is 1 and 0 there.
DInf == 1000000000

\* The fixed steps of the Greeks, in the model's units.
EpsSpot == 10

EpsSigma == 100

DaysPerYear == 252

\* A volatility beyond +-PMax = +-1000.0, the largest the model represents,
\* is +-Huge.
PMax == 100000000

Huge == 2000000000

\* Volatility (units of 1e-5) as a Q-scaled number.
SigmaQ(sigma) == sigma * 10

\* Maturity (trading days) as Q-scaled years.
YearsQ(T) == (T * Q) \div DaysPerYear

\* x/y in floating point for y = +-0: +-inf, or nan for 0/0.
\* zsign is the sign of the zero.
DivZero(x, zsign) == IF x = 0 THEN NaN ELSE Sgn(x) * zsign * DInf

\* x/y, saturating at +-inf where the quotient leaves the Q-scaled range.
DivSat(x, y) ==
    IF Abs(x) \div Abs(y) >= 1000 THEN Sgn(x) * Sgn(y) * DInf ELSE DivQ(x, y)

\* sigma * np.sqrt(T) beyond which d1 and d2 are past +-PhiSat whatever
\* the other terms are.
VolSat == 40000000

\* sigma * np.sqrt(T); a volatility of +-Huge is past +-VolSat for every
\* maturity of one day or more.
TotalVol(sigma, T) ==
    IF Abs(sigma) = Huge THEN Sgn(sigma) * Sgn(T) * VolSat
    ELSE MulQ(SigmaQ(sigma), Sqrt(YearsQ(T)))

\* The sign of the zero that sigma * np.sqrt(T) is when it is zero.
ZSign(sigma) == IF sigma < 0 THEN -1 ELSE 1

\* (drift + 0.5 * vol ** 2) / vol, for drift = np.log(S / self.K) + self.r * T
\* and vol = sigma * np.sqrt(T).
D1Ratio(drift, vol, zsign) ==
    IF vol = 0 THEN DivZero(drift, zsign)
    ELSE DivSat(drift + (MulQ(vol, vol) \div 2), vol)

\* Lines 50 and 71:
\*   d1 = (np.log(S / self.K) + (self.r + 0.5 * sigma ** 2) * T)
\*        / (sigma * np.sqrt(T))
\* for S >= 0 and T >= 0; sigma ** 2 * T is taken as (sigma * sqrt(T)) ** 2.
\* np.log(0) is -inf.  The result is a Q-scaled number, +-DInf or NaN.
D1(S, K, T, sigma, r, vol) ==
    IF S = 0
    THEN (IF vol = 0 THEN -ZSign(sigma) * DInf ELSE -Sgn(vol) * DInf)
    ELSE IF Abs(vol) >= VolSat THEN Sgn(vol) * DInf
    ELSE D1Ratio(Ln(DivQ(S, K)) + MulQ(r, YearsQ(T)), vol, ZSign(sigma))

\* Lines 51 and 72: d2 = d1 - sigma * np.sqrt(T)
D2(S, vol, d1) ==
    IF d1 = NaN THEN NaN
    ELSE IF S # 0 /\ Abs(vol) >= VolSat THEN -Sgn(vol) * DInf
    ELSE IF Abs(d1) = DInf THEN d1
    ELSE d1 - vol

D1D2Pair(S, vol, d1) == [d1 |-> d1, d2 |-> D2(S, vol, d1)]

D1D2Vol(S, K, T, sigma, r, vol) == D1D2Pair(S, vol, D1(S, K, T, sigma, r, vol))

\* Lines 50-51 and 71-72: [d1, d2].
D1D2(S, K, T, sigma, r) == D1D2Vol(S, K, T, sigma, r, TotalVol(sigma, T))

\* self.K * np.exp(-self.r * T), in price units.
Discounted(K, T, r) == MulK(K, Exp(-MulQ(r, YearsQ(T))))

\* norm.cdf of a d1 or d2 that is not nan.
Cdf(d) == IF d >= PhiSat THEN Q ELSE IF d <= -PhiSat THEN 0 ELSE Phi(d)

\* Line 52: S * norm.cdf(d1) - self.K * np.exp(-self.r * T) * norm.cdf(d2)
CallFormula(S, KD, d) == MulK(S, Cdf(d.d1)) - MulQAbs(KD, Cdf(d.d2))

\* Line 73 would be, without the two minus signs:
PutFormulaSameSign(S, KD, d) == MulQAbs(KD, Cdf(d.d2)) - MulK(S, Cdf(d.d1))

\* Line 73: self.K * np.exp(-self.r * T) * norm.cdf(-d2) - S * norm.cdf(-d1)
PutFormula(S, KD, d) == MulQAbs(KD, Cdf(-d.d2)) - MulK(S, Cdf(-d.d1))

\* Lines 52-53 and 73-74 given [d1, d2]: a nan d1 gives a nan price.
FormulaOf(fn, S, KD, d) ==
    IF d.d1 = NaN THEN NaN
    ELSE IF fn = "call" THEN CallFormula(S, KD, d)
    ELSE PutFormula(S, KD, d)

\* The price one pricer computes from its effective inputs: nan when the
\* logarithm or the square root gets a negative operand or d1 is 0/0.
Formula(fn, S, K, T, sigma, r) ==
    IF S < 0 \/ T < 0 THEN NaN
    ELSE FormulaOf(fn, S, Discounted(K, T, r), D1D2(S, K, T, sigma, r))

\* An optional argument: <<>> is None, <<v>> the value v.
NoArg == <<>>

Arg(v) == <<v>>

\* The resolution "X = X or self.X" would be: a zero override counts as
\* not supplied.
ResolveFalsy(arg, stored) ==
    IF arg = NoArg \/ arg[1] = 0 THEN stored ELSE arg[1]

\* Lines 46-48 and 67-69: X = X if X is not None else self.X
Resolve(arg, stored) == IF arg = NoArg THEN stored ELSE arg[1]

\* The price a pricer returns for its effective inputs; a nan volatility
\* gives a nan price.
PriceOf(fn, S, K, T, sigma, r) ==
    IF sigma = NaN THEN NaN ELSE Formula(fn, S, K, T, sigma, r)

\* What one pricer invocation is: the pricer, the arguments it was passed,
\* the five inputs its formula used and the price it returned.
Invocation(fn, obj, S, T, sigma) ==
    [fn |-> fn, argS |-> S, argT |-> T, argSigma |-> sigma,
     S |-> Resolve(S, obj.S), T |-> Resolve(T, obj.T),
     sigma |-> Resolve(sigma, obj.sigma), K |-> obj.K, r |-> obj.r,
     val |-> PriceOf(fn, Resolve(S, obj.S), obj.K, Resolve(T, obj.T),
                     Resolve(sigma, obj.sigma), obj.r)]

\* What a pricer call yields: the value returned and the invocation.
PricerResult(inv) == [val |-> inv.val, calls |-> <<inv>>]

\* The object after a pricer that assigned its effective inputs to
\* self.S, self.T and self.sigma would be:
AfterPricerStoring(obj, S, T, sigma) ==
    [obj EXCEPT !.S = Resolve(S, obj.S), !.T = Resolve(T, obj.T),
                !.sigma = Resolve(sigma, obj.sigma)]

\* The object after a pricer was called with these arguments: the pricers
\* assign only to their local names S, T and sigma, never to an attribute.
AfterPricer(obj, S, T, sigma) == obj

\* Lines 34-53.
black_scholes_european_call(obj, S, T, sigma) ==
    PricerResult(Invocation("call", obj, S, T, sigma))

\* Lines 55-74.
black_scholes_european_put(obj, S, T, sigma) ==
    PricerResult(Invocation("put", obj, S, T, sigma))

----------------------------------------------------------------------------
(* Outcomes of a method call and floating-point helpers *)

Returned(v) == [tag |-> "return", val |-> v]

Raised(e) == [tag |-> e, val |-> 0]

Pending == [tag |-> "running", val |-> 0]

NoCall == [tag |-> "none", val |-> 0]

\* a - b, a + b and k * a in floating point: nan propagates.
FSub(a, b) == IF a = NaN \/ b = NaN THEN NaN ELSE a - b

FAdd(a, b) == IF a = NaN \/ b = NaN THEN NaN ELSE a + b

FTimes(k, a) == IF a = NaN THEN NaN ELSE k * a

\* abs(a) < abs(b) in floating point: False when either is nan.
AbsLess(a, b) == a # NaN /\ b # NaN /\ Abs(a) < Abs(b)

\* What a method did: its outcome, the pricer invocations it made and the
\* object afterwards.
Did(r, c, obj) == [ret |-> r, calls |-> c, obj |-> obj]

----------------------------------------------------------------------------
(* Lines 76-91: the price dispatcher *)

\* "return self.black_scholes_european_...()": the pricer's result is the
\* method's.
ReturnPrice(c, obj) == Did(Returned(c.val), c.calls, obj)

\* The dispatcher with "else: return self.black_scholes_european_call()"
\* in place of line 91 would be:
DispatchDefaultingToCall(obj, option_type) ==
    IF option_type = "put"
    THEN ReturnPrice(black_scholes_european_put(obj, NoArg, NoArg, NoArg),
                     AfterPricer(obj, NoArg, NoArg, NoArg))
    ELSE ReturnPrice(black_scholes_european_call(obj, NoArg, NoArg, NoArg),
                     AfterPricer(obj, NoArg, NoArg, NoArg))

calculate_black_scholes_option_price(obj, option_type) ==
    IF option_type = "call"
    THEN ReturnPrice(black_scholes_european_call(obj, NoArg, NoArg, NoArg),
                     AfterPricer(obj, NoArg, NoArg, NoArg))
    ELSE IF option_type = "put"
    THEN ReturnPrice(black_scholes_european_put(obj, NoArg, NoArg, NoArg),
                     AfterPricer(obj, NoArg, NoArg, NoArg))
    ELSE Did(Raised("ValueError"), <<>>, obj)

----------------------------------------------------------------------------
(* Lines 113-172: the finite-difference Greeks.  Dividing a price          *)
(* difference (units of 1e-7) by epsilon = 0.001 gives a number in units   *)
(* of 1e-4 with the same digits; dividing by epsilon ** 2 one in units of  *)
(* 1e-1; dividing by 1/252 multiplies by 252.                              *)

\* The selection that ignores the option type would be:
PricerIgnoringType(option_type, obj, S, T, sigma) ==
    black_scholes_european_call(obj, S, T, sigma)

\* The pricer an option_type selects in calculate_delta / calculate_theta.
PricerFor(option_type, obj, S, T, sigma) ==
    IF option_type = "call" THEN black_scholes_european_call(obj, S, T, sigma)
    ELSE black_scholes_european_put(obj, S, T, sigma)

\* (a - b) / epsilon of two pricer calls a and b.
Difference(a, b, obj) ==
    Did(Returned(FSub(a.val, b.val)), a.calls \o b.calls, obj)

\* (a - b) / (1/252)
PerYear(a, b, obj) ==
    Did(Returned(FTimes(DaysPerYear, FSub(a.val, b.val))), a.calls \o b.calls, obj)

\* (a - 2 * b + c) / epsilon ** 2
SecondDifference(a, b, c, obj) ==
    Did(Returned(FAdd(FSub(a.val, FTimes(2, b.val)), c.val)),
        a.calls \o b.calls \o c.calls, obj)

\* Lines 113-130.  o1 and o2 are the object after the first and the second
\* pricer call.
calculate_delta(obj, option_type) ==
    IF option_type \in {"call", "put"}
    THEN LET o1 == AfterPricer(obj, Arg(obj.S + EpsSpot), NoArg, NoArg)
             o2 == AfterPricer(o1, Arg(o1.S), NoArg, NoArg)
         IN  Difference(
                 PricerFor(option_type, obj, Arg(obj.S + EpsSpot), NoArg, NoArg),
                 PricerFor(option_type, o1, Arg(o1.S), NoArg, NoArg),
                 o2)
    ELSE Did(Raised("ValueError"), <<>>, obj)

\* Lines 132-142.
calculate_gamma(obj) ==
    LET o1 == AfterPricer(obj, Arg(obj.S + EpsSpot), NoArg, NoArg)
        o2 == AfterPricer(o1, Arg(o1.S), NoArg, NoArg)
        o3 == AfterPricer(o2, Arg(o2.S - EpsSpot), NoArg, NoArg)
    IN  SecondDifference(
            black_scholes_european_call(obj, Arg(obj.S + EpsSpot), NoArg, NoArg),
            black_scholes_european_call(o1, Arg(o1.S), NoArg, NoArg),
            black_scholes_european_call(o2, Arg(o2.S - EpsSpot), NoArg, NoArg),
            o3)

\* Lines 144-160; self.T - 1/252 is one trading day less.
calculate_theta(obj, option_type) ==
    IF option_type \in {"call", "put"}
    THEN LET o1 == AfterPricer(obj, NoArg, Arg(obj.T - 1), NoArg)
             o2 == AfterPricer(o1, NoArg, Arg(o1.T), NoArg)
         IN  PerYear(
                 PricerFor(option_type, obj, NoArg, Arg(obj.T - 1), NoArg),
                 PricerFor(option_type, o1, NoArg, Arg(o1.T), NoArg),
                 o2)
    ELSE Did(Raised("ValueError"), <<>>, obj)

\* calculate_vega on the put pricer would be:
VegaOfPut(obj) ==
    Difference(
        black_scholes_european_put(obj, NoArg, NoArg, Arg(obj.sigma + EpsSigma)),
        black_scholes_european_put(obj, NoArg, NoArg, Arg(obj.sigma)),
        obj)

\* Lines 162-172.
calculate_vega(obj) ==
    LET o1 == AfterPricer(obj, NoArg, NoArg, Arg(obj.sigma + EpsSigma))
        o2 == AfterPricer(o1, NoArg, NoArg, Arg(o1.sigma))
    IN  Difference(
            black_scholes_european_call(obj, NoArg, NoArg, Arg(obj.sigma + EpsSigma)),
            black_scholes_european_call(o1, NoArg, NoArg, Arg(o1.sigma)),
            o2)

----------------------------------------------------------------------------
(* Lines 93-111: calculate_implied_volatility.  newton(func, x0=0.2) with  *)
(* no fprime is scipy's secant iteration with its defaults tol = 1.48e-8,  *)
(* maxiter = 50, rtol = 0.0 and disp = True.                               *)

\* x0 = 0.2, in volatility units.
X0 == 20000

\* The second starting point: p1 = x0 * (1 + 1e-4) + 1e-4.
X1 == 20012

\* newton's maxiter.
MaxIter == 50

\* newton's tol = 1.48e-8, in volatility units (of 1e-5).
NewtonTol == 0

\* A product or quotient too large for the model's integers.
Overflow == -1

RECURSIVE MulDivAcc(_, _, _)
\* [quo, rem] with a*b = quo*c + rem, for 0 <= a < c <= 5.4e8 and b >= 0;
\* quo is Overflow when it would exceed 2*PMax.
MulDivAcc(a, b, c) ==
    IF b = 0 THEN [quo |-> 0, rem |-> 0]
    ELSE LET h  == MulDivAcc(a, b \div 2, c)
             r2 == 2 * h.rem + (b % 2) * a
             q2 == 2 * h.quo + (r2 \div c)
         IN  IF h.quo = Overflow \/ q2 > 2 * PMax THEN [quo |-> Overflow, rem |-> 0]
             ELSE [quo |-> q2, rem |-> r2 % c]

\* w*b + f.quo, or Overflow.
MulDivJoin(w, b, f) ==
    IF f.quo = Overflow \/ (w > 0 /\ b > (2 * PMax) \div w) THEN Overflow
    ELSE IF w * b + f.quo > 2 * PMax THEN Overflow
    ELSE w * b + f.quo

\* a*b/c rounded toward zero for a, b >= 0 and 0 < c <= 5.4e8, or Overflow.
MulDivSmall(a, b, c) == MulDivJoin(a \div c, b, MulDivAcc(a % c, b, c))

\* a*b/c rounded toward zero for a, b >= 0 and c > 0, or Overflow.  Operands
\* beyond 5.4e8 are first rounded to multiples of 4.
MulDiv(a, b, c) ==
    IF c > 536870911 THEN MulDivSmall(a \div 4, b, c \div 4)
    ELSE MulDivSmall(a, b, c)

\* A volatility, or +-Huge.
Clip(p) == IF Abs(p) > PMax THEN Sgn(p) * Huge ELSE p

\* p1 - sgn * step
SecantStep(p1, sgn, step) ==
    IF step = Overflow THEN -sgn * Huge ELSE Clip(p1 - sgn * step)

\* The secant update of newton's loop,
\*   p = (-q0 / q1 * p1 + p0) / (1 - q0 / q1)   if abs(q1) > abs(q0)
\*   p = (-q1 / q0 * p0 + p1) / (1 - q1 / q0)   otherwise,
\* both of which are p1 - q1 * (p1 - p0) / (q1 - q0), for q1 # q0.
\* nan if an operand is nan; +-Huge if the result leaves +-PMax.
SecantUpdate(p0, q0, p1, q1) ==
    IF p0 = NaN \/ p1 = NaN \/ q0 = NaN \/ q1 = NaN THEN NaN
    ELSE SecantStep(p1, Sgn(q1) * Sgn(p1 - p0) * Sgn(q1 - q0),
                    MulDiv(Abs(q1), Abs(p1 - p0), Abs(q1 - q0)))

\* The update from a point beyond +-PMax is not one the model computes.
Unmodelled(p0, q0, p1, q1) ==
    /\ q1 # q0
    /\ Abs(p0) = Huge \/ Abs(p1) = Huge

\* np.isclose(p, p1, rtol=0.0, atol=tol): False for a nan, and for a
\* point beyond +-PMax and one within.
IsClose(p, p1) ==
    /\ p # NaN /\ p1 # NaN
    /\ Abs(p) # Huge /\ Abs(p1) # Huge
    /\ Abs(p - p1) <= NewtonTol

\* Lines 104-108: the objective.  It has no else branch: for an option
\* type that is neither 'call' nor 'put' it returns None (none = TRUE)
\* without invoking a pricer.
Objective(c, market_price) ==
    [val |-> FSub(c.val, market_price), none |-> FALSE, calls |-> c.calls]

implied_volatility_func(obj, option_type, market_price, sigma) ==
    IF option_type = "call"
    THEN Objective(black_scholes_european_call(obj, NoArg, NoArg, Arg(sigma)),
                   market_price)
    ELSE IF option_type = "put"
    THEN Objective(black_scholes_european_put(obj, NoArg, NoArg, Arg(sigma)),
                   market_price)
    ELSE [val |-> 0, none |-> TRUE, calls |-> <<>>]

\* The object after the objective was evaluated at sigma.
AfterObjective(obj, option_type, sigma) ==
    IF option_type \in {"call", "put"}
    THEN AfterPricer(obj, NoArg, NoArg, Arg(sigma))
    ELSE obj

\* newton once q0 = func(p0) and q1 = func(p1) are evaluated:
\* abs(q1) < abs(q0), which raises TypeError on None, swaps the points.
NewtonOrder(e0, e1, obj, sw) ==
    IF e0.none \/ e1.none
    THEN [ret |-> Raised("TypeError"), calls |-> e0.calls \o e1.calls,
          obj |-> obj, funcalls |-> 2, running |-> FALSE,
          p0 |-> X0, q0 |-> 0, p1 |-> X1, q1 |-> 0]
    ELSE [ret |-> Pending, calls |-> e0.calls \o e1.calls,
          obj |-> obj, funcalls |-> 2, running |-> TRUE,
          p0 |-> IF sw THEN X1 ELSE X0, q0 |-> IF sw THEN e1.val ELSE e0.val,
          p1 |-> IF sw THEN X0 ELSE X1, q1 |-> IF sw THEN e0.val ELSE e1.val]

NewtonEvaluated(e0, e1, obj) == NewtonOrder(e0, e1, obj, AbsLess(e1.val, e0.val))

\* newton up to its loop.
NewtonStart(obj, option_type, market_price) ==
    LET o1 == AfterObjective(obj, option_type, X0)
        o2 == AfterObjective(o1, option_type, X1)
    IN  NewtonEvaluated(implied_volatility_func(obj, option_type, market_price, X0),
                        implied_volatility_func(o1, option_type, market_price, X1),
                        o2)

\* newton ends: by return, by raise, or (Pending) outside the model.
NewtonStop(r, obj, st) ==
    [ret |-> r, calls |-> <<>>, obj |-> obj, running |-> FALSE, st |-> st]

\* A loop "while True" would never be out of passes.
NeverExhausted(st) == FALSE

\* "for itr in range(maxiter)" has no pass left.
Exhausted(st) == st.itr = MaxIter

\* newton(..., disp=False) would warn and return where disp=True raises.
OnZeroSlopeLastIterate(st) == Returned(st.p0)

\* q1 == q0: "if p1 != p0: raise RuntimeError(msg)" (disp is True), else
\* "return (p1 + p0) / 2.0".
OnZeroSlope(st) ==
    IF st.p1 # st.p0 THEN Raised("RuntimeError") ELSE Returned(st.p1)

\* The pass goes on to the next: p0, q0 = p1, q1; p1 = p; q1 = func(p1).
NewtonAdvance(st, p, e, obj) ==
    [ret |-> Pending, calls |-> e.calls, obj |-> obj, running |-> TRUE,
     st |-> [p0 |-> st.p1, q0 |-> st.q1, p1 |-> p, q1 |-> e.val,
             itr |-> st.itr + 1, funcalls |-> st.funcalls + 1]]

\* The pass once p is computed: "if np.isclose(p, p1, ...): return p".
NewtonStep(obj, option_type, market_price, st, p) ==
    IF IsClose(p, st.p1) THEN NewtonStop(Returned(p), obj, st)
    ELSE NewtonAdvance(st, p,
                       implied_volatility_func(obj, option_type, market_price, p),
                       AfterObjective(obj, option_type, p))

\* One pass of "for itr in range(maxiter)", or the code after the loop
\* (raise RuntimeError) when the passes are used up.  st is the solver's
\* state, [p0, q0, p1, q1, itr, funcalls]; the result adds the outcome and
\* the pricer invocations.  A pass that updates from a point beyond +-PMax
\* is outside the model: it is reported as not running and still pending,
\* and the model takes no such pass.
NewtonPass(obj, option_type, market_price, st) ==
    IF Exhausted(st) THEN NewtonStop(Raised("RuntimeError"), obj, st)
    ELSE IF st.q1 # NaN /\ st.q1 = st.q0 THEN NewtonStop(OnZeroSlope(st), obj, st)
    ELSE IF Unmodelled(st.p0, st.q0, st.p1, st.q1) THEN NewtonStop(Pending, obj, st)
    ELSE NewtonStep(obj, option_type, market_price, st,
                    SecantUpdate(st.p0, st.q0, st.p1, st.q1))

----------------------------------------------------------------------------
(* The state machine: one toolbox object and the calls made on it *)

\* Bounds of the model.
MaxSmallSpot == 2

MaxShortMaturity == 1

MaxPriceSteps == 4

\* The contract of example_usage.py: spot 100, strike 100, one year,
\* volatility 0.2, rate 0.05.
Example == [S |-> 1000000, K |-> 1000000, T |-> 252, sigma |-> 20000, r |-> 50000]

\* The constructor's arguments: the example, the example with a negative
\* rate, with a spot price of a few half spot steps, and with a maturity of
\* a few days.  Every one satisfies the data-model invariant spot > 0,
\* strike > 0, maturity > 0, volatility > 0.
Configs ==
    {Example, [Example EXCEPT !.r = -10000]}
    \cup {[Example EXCEPT !.S = k * (EpsSpot \div 2)] : k \in 1..MaxSmallSpot}
    \cup {[Example EXCEPT !.T = d] : d \in 1..MaxShortMaturity}

\* Lines 17-32: __init__ stores its five arguments.
Construct(c) == [S |-> c.S, K |-> c.K, T |-> c.T, sigma |-> c.sigma, r |-> c.r]

\* Overrides a caller passes to a pricer: none, zero, another value.
SpotArgs == {NoArg, Arg(0), Arg(1100000)}

MaturityArgs == {NoArg, Arg(0)}

SigmaArgs == {NoArg, Arg(30000)}

\* Option types a caller passes.
OptionTypes == {"call", "put", "straddle"}

\* Market prices a caller passes: -5, 18, 41, ... (below, inside and above
\* the prices an option can have), and the object's own call and put
\* prices (the round trip).
MarketPrices(obj) ==
    {(23 * k - 5) * 10000000 : k \in 0..MaxPriceSteps}
    \cup {Formula("call", obj.S, obj.K, obj.T, obj.sigma, obj.r),
          Formula("put", obj.S, obj.K, obj.T, obj.sigma, obj.r)}

VARIABLES
    self,    \* the object's attributes S, K, T, sigma, r
    ctor,    \* the arguments its constructor was given
    op,      \* the method called last and its arguments
    ret,     \* the outcome of that call
    calls,   \* the pricer invocations that call made, in order
    pc,      \* "idle", or "newton" inside calculate_implied_volatility
    st       \* newton's p0, q0, p1, q1, itr and funcalls

vars == <<self, ctor, op, ret, calls, pc, st>>

Method(name, option_type, market_price, S, T, sigma) ==
    [name |-> name, option_type |-> option_type, market_price |-> market_price,
     S |-> S, T |-> T, sigma |-> sigma]

NoSolver == [p0 |-> 0, q0 |-> 0, p1 |-> 0, q1 |-> 0, itr |-> 0, funcalls |-> 0]

Init ==
    /\ ctor \in Configs
    /\ self = Construct(ctor)
    /\ op = Method("__init__", "", 0, NoArg, NoArg, NoArg)
    /\ ret = NoCall
    /\ calls = <<>>
    /\ pc = "idle"
    /\ st = NoSolver

\* A method that runs to completion in one step: r is what it did.
Complete(m, r) ==
    /\ op' = m
    /\ ret' = r.ret
    /\ calls' = r.calls
    /\ self' = r.obj
    /\ st' = NoSolver
    /\ UNCHANGED <<ctor, pc>>

Call ==
    /\ pc = "idle"
    /\ \E S \in SpotArgs, T \in MaturityArgs, sigma \in SigmaArgs :
           Complete(Method("black_scholes_european_call", "", 0, S, T, sigma),
                    ReturnPrice(black_scholes_european_call(self, S, T, sigma),
                                AfterPricer(self, S, T, sigma)))

Put ==
    /\ pc = "idle"
    /\ \E S \in SpotArgs, T \in MaturityArgs, sigma \in SigmaArgs :
           Complete(Method("black_scholes_european_put", "", 0, S, T, sigma),
                    ReturnPrice(black_scholes_european_put(self, S, T, sigma),
                                AfterPricer(self, S, T, sigma)))

CalculatePrice ==
    /\ pc = "idle"
    /\ \E t \in OptionTypes :
           Complete(Method("calculate_black_scholes_option_price", t, 0, NoArg, NoArg, NoArg),
                    calculate_black_scholes_option_price(self, t))

CalculateDelta ==
    /\ pc = "idle"
    /\ \E t \in OptionTypes :
           Complete(Method("calculate_delta", t, 0, NoArg, NoArg, NoArg),
                    calculate_delta(self, t))

CalculateGamma ==
    /\ pc = "idle"
    /\ Complete(Method("calculate_gamma", "", 0, NoArg, NoArg, NoArg),
                calculate_gamma(self))

CalculateTheta ==
    /\ pc = "idle"
    /\ \E t \in OptionTypes :
           Complete(Method("calculate_theta", t, 0, NoArg, NoArg, NoArg),
                    calculate_theta(self, t))

CalculateVega ==
    /\ pc = "idle"
    /\ Complete(Method("calculate_vega", "", 0, NoArg, NoArg, NoArg),
                calculate_vega(self))

\* newton has evaluated its two starting points: r is what it did.
Started(m, r) ==
    /\ op' = m
    /\ ret' = r.ret
    /\ calls' = r.calls
    /\ self' = r.obj
    /\ pc' = IF r.running THEN "newton" ELSE "idle"
    /\ st' = [p0 |-> r.p0, q0 |-> r.q0, p1 |-> r.p1, q1 |-> r.q1,
              itr |-> 0, funcalls |-> r.funcalls]
    /\ UNCHANGED ctor

\* calculate_implied_volatility up to newton's loop.
CalculateImpliedVolatility ==
    /\ pc = "idle"
    /\ \E t \in OptionTypes, m \in MarketPrices(self) :
           Started(Method("calculate_implied_volatility", t, m, NoArg, NoArg, NoArg),
                   NewtonStart(self, t, m))

\* newton has made one more pass, or ended: r is what it did.
Passed(r) ==
    /\ r.running \/ r.ret # Pending
    /\ ret' = r.ret
    /\ calls' = calls \o r.calls
    /\ self' = r.obj
    /\ pc' = IF r.running THEN "newton" ELSE "idle"
    /\ st' = r.st
    /\ UNCHANGED <<ctor, op>>

\* One pass of newton's loop, or its end; line 111 returns newton's result.
NewtonIterate ==
    /\ pc = "newton"
    /\ Passed(NewtonPass(self, op.option_type, op.market_price, st))

Next ==
    \/ Call
    \/ Put
    \/ CalculatePrice
    \/ CalculateImpliedVolatility
    \/ NewtonIterate
    \/ CalculateDelta
    \/ CalculateGamma
    \/ CalculateTheta
    \/ CalculateVega

Spec == Init /\ [][Next]_vars

\* newton's next pass is one the model does not compute.
Unfinished(r) == ~r.running /\ r.ret = Pending

\* A run of newton left the volatilities the model represents.
OutOfModel ==
    /\ pc = "newton"
    /\ Unfinished(NewtonPass(self, op.option_type, op.market_price, st))

----------------------------------------------------------------------------
(* Put-call parity: the two pricers applied to the same inputs.  The call  *)
(* pricer is called on a fresh object, then the put pricer with the same   *)
(* arguments; calls keeps both invocations.                                *)

ParityConfigs ==
    [S : {900000, 1000000, 1100000}, K : {1000000, 1200000},
     T : {1, 21, 252, 504}, sigma : {5000, 20000, 100000},
     r : {-10000, 0, 50000}]

\* Overrides that are valid inputs.
ParitySpotArgs == {NoArg, Arg(950000)}

ParityMaturityArgs == {NoArg, Arg(126)}

ParitySigmaArgs == {NoArg, Arg(30000)}

ParityInit ==
    /\ ctor \in ParityConfigs
    /\ self = Construct(ctor)
    /\ op = Method("__init__", "", 0, NoArg, NoArg, NoArg)
    /\ ret = NoCall
    /\ calls = <<>>
    /\ pc = "idle"
    /\ st = NoSolver

ParityCall ==
    /\ pc = "idle"
    /\ op.name = "__init__"
    /\ \E S \in ParitySpotArgs, T \in ParityMaturityArgs, sigma \in ParitySigmaArgs :
           Complete(Method("black_scholes_european_call", "", 0, S, T, sigma),
                    ReturnPrice(black_scholes_european_call(self, S, T, sigma),
                                AfterPricer(self, S, T, sigma)))

\* A second method call whose invocations are kept after the first's.
Follow(m, r) ==
    /\ op' = m
    /\ ret' = r.ret
    /\ calls' = calls \o r.calls
    /\ self' = r.obj
    /\ UNCHANGED <<ctor, pc, st>>

ParityPut ==
    /\ pc = "idle"
    /\ op.name = "black_scholes_european_call"
    /\ Follow(Method("black_scholes_european_put", "", 0, op.S, op.T, op.sigma),
              ReturnPrice(black_scholes_european_put(self, op.S, op.T, op.sigma),
                          AfterPricer(self, op.S, op.T, op.sigma)))

ParityNext == ParityCall \/ ParityPut

ParitySpec == ParityInit /\ [][ParityNext]_vars

----------------------------------------------------------------------------
(* Properties *)

Recognized == {"call", "put"}

Greeks == {"calculate_delta", "calculate_gamma", "calculate_theta", "calculate_vega"}

\* The effective inputs of the i-th pricer invocation of the last call.
Effective(i) == <<calls[i].S, calls[i].T, calls[i].sigma>>

\* No override was passed to the i-th pricer invocation.
NoOverride(i) ==
    calls[i].argS = NoArg /\ calls[i].argT = NoArg /\ calls[i].argSigma = NoArg

\* C1: calculate_black_scholes_option_price returns, for 'call' and for
\* 'put', the result of that pricer called once with no override, so on the
\* spot, maturity and volatility the constructor stored; for any other
\* option type it raises ValueError and calls no pricer.
DispatcherRoutes ==
    op.name = "calculate_black_scholes_option_price" =>
        IF op.option_type \in Recognized
        THEN /\ ret.tag = "return"
             /\ Len(calls) = 1
             /\ calls[1].fn = op.option_type
             /\ NoOverride(1)
             /\ Effective(1) = <<ctor.S, ctor.T, ctor.sigma>>
             /\ ret.val = calls[1].val
             /\ ret.val = Formula(op.option_type, ctor.S, ctor.K, ctor.T,
                                  ctor.sigma, ctor.r)
        ELSE ret.tag = "ValueError" /\ calls = <<>>

DispatcherRejected ==
    /\ op.name = "calculate_black_scholes_option_price"
    /\ op.option_type = "straddle"
    /\ ret.tag = "ValueError"

\* C2: whatever methods were called, with or without overrides, returning
\* or raising, the object's attributes are the constructor's arguments.
StoredConfigurationKept == self = Construct(ctor)

FailedSolveKeptConfiguration ==
    /\ op.name = "calculate_implied_volatility"
    /\ ret.tag = "RuntimeError"
    /\ Len(calls) > 2
    /\ calls[Len(calls)].sigma # ctor.sigma
    /\ self = Construct(ctor)

\* C3: calculate_delta and calculate_theta call only the pricer their
\* option type names, twice, and return; for any other option type they
\* raise ValueError and call no pricer.
DeltaThetaDispatch ==
    op.name \in {"calculate_delta", "calculate_theta"} =>
        IF op.option_type \in Recognized
        THEN /\ ret.tag = "return"
             /\ Len(calls) = 2
             /\ \A i \in 1..Len(calls) : calls[i].fn = op.option_type
        ELSE ret.tag = "ValueError" /\ calls = <<>>

ThetaOfPut ==
    /\ op.name = "calculate_theta"
    /\ op.option_type = "put"
    /\ ret.tag = "return"
    /\ Len(calls) = 2
    /\ calls[1].fn = "put" /\ calls[2].fn = "put"

\* C4: calculate_implied_volatility with an option type other than 'call'
\* and 'put' raises ValueError before newton evaluates the objective.
UnknownTypeRejectedAtOnce ==
    (op.name = "calculate_implied_volatility" /\ op.option_type \notin Recognized) =>
        ret.tag = "ValueError" /\ st.funcalls = 0

PutCallParity ==
    (op.name = "black_scholes_european_put" /\ Len(calls) = 2) =>
        /\ calls[1].fn = "call" /\ calls[2].fn = "put"
        /\ Effective(1) = Effective(2)
        /\ calls[1].K = calls[2].K /\ calls[1].r = calls[2].r
        /\ calls[1].val # NaN /\ calls[2].val # NaN
        /\ Abs((calls[1].val - calls[2].val)
               - (calls[1].S * 1000
                  - Discounted(calls[1].K, calls[1].T, calls[1].r))) <= 10

ParityOfOverridden ==
    /\ op.name = "black_scholes_european_put"
    /\ Len(calls) = 2
    /\ op.S # NoArg /\ op.T # NoArg /\ op.sigma # NoArg
    /\ calls[1].val > 10000000
    /\ calls[2].val > 10000000

\* C7: calculate_gamma and calculate_vega call the call pricer only, three
\* times and twice, and what they return is what they return on a freshly
\* constructed object, whatever was called before.
GammaVegaUseCallPricer ==
    /\ op.name = "calculate_gamma" =>
           /\ ret.tag = "return"
           /\ Len(calls) = 3
           /\ \A i \in 1..Len(calls) : calls[i].fn = "call"
           /\ ret = calculate_gamma(Construct(ctor)).ret
    /\ op.name = "calculate_vega" =>
           /\ ret.tag = "return"
           /\ Len(calls) = 2
           /\ \A i \in 1..Len(calls) : calls[i].fn = "call"
           /\ ret = calculate_vega(Construct(ctor)).ret

VegaComputed ==
    /\ op.name = "calculate_vega"
    /\ ret.tag = "return"
    /\ ret.val > 0
    /\ calls[1].fn = "call" /\ calls[2].fn = "call"

\* C8: calculate_implied_volatility makes at most MaxIter passes and
\* MaxIter + 2 evaluations of the objective; every pass ends the call or
\* is followed by the next one, and the pass after the last raises.
SolverBounded ==
    /\ st.itr <= MaxIter
    /\ st.funcalls <= MaxIter + 2
    /\ op.name = "calculate_implied_volatility" =>
           /\ st.funcalls = st.itr + 2
           /\ Len(calls) <= st.funcalls
    /\ pc = "newton" => ~OutOfModel
    /\ (pc = "newton" /\ st.itr = MaxIter) =>
           NewtonPass(self, op.option_type, op.market_price, st).ret.tag = "RuntimeError"

SolverTerminates ==
    /\ []SolverBounded
    /\ [][pc = "newton" => (pc' = "idle" \/ st'.itr = st.itr + 1)]_vars

BudgetUsedUp ==
    /\ op.name = "calculate_implied_volatility"
    /\ pc = "idle"
    /\ ret.tag = "RuntimeError"
    /\ st.itr = MaxIter
    /\ op.market_price < 0

\* The value an argument stands for: the override when one is passed, zero
\* included, and the constructor's value otherwise.
Chosen(arg, given) == IF arg = NoArg THEN given ELSE arg[1]

\* C9: every pricer invocation uses, for spot, maturity and volatility, the
\* override passed to it (zero included) or else the stored value, and the
\* stored strike and rate.  calculate_delta prices at S + 0.001 and S,
\* calculate_gamma at S + 0.001, S and S - 0.001, calculate_theta at
\* T - 1/252 and T, calculate_vega at sigma + 0.001 and sigma, every other
\* input being the stored one, and they return the difference of the first
\* two prices (theta: times 252), gamma the second difference.
OverridesAndPerturbations ==
    /\ \A i \in 1..Len(calls) :
           /\ calls[i].S = Chosen(calls[i].argS, ctor.S)
           /\ calls[i].T = Chosen(calls[i].argT, ctor.T)
           /\ calls[i].sigma = Chosen(calls[i].argSigma, ctor.sigma)
           /\ calls[i].K = ctor.K
           /\ calls[i].r = ctor.r
    /\ op.name \in {"black_scholes_european_call", "black_scholes_european_put"} =>
           /\ Len(calls) >= 1
           /\ Effective(Len(calls)) =
                  <<Chosen(op.S, ctor.S), Chosen(op.T, ctor.T), Chosen(op.sigma, ctor.sigma)>>
           /\ ret = Returned(calls[Len(calls)].val)
    /\ (op.name = "calculate_delta" /\ op.option_type \in Recognized) =>
           /\ Effective(1) = <<ctor.S + EpsSpot, ctor.T, ctor.sigma>>
           /\ Effective(2) = <<ctor.S, ctor.T, ctor.sigma>>
           /\ ret = Returned(FSub(calls[1].val, calls[2].val))
    /\ op.name = "calculate_gamma" =>
           /\ Effective(1) = <<ctor.S + EpsSpot, ctor.T, ctor.sigma>>
           /\ Effective(2) = <<ctor.S, ctor.T, ctor.sigma>>
           /\ Effective(3) = <<ctor.S - EpsSpot, ctor.T, ctor.sigma>>
           /\ ret = Returned(FAdd(FSub(calls[1].val, FTimes(2, calls[2].val)),
                                  calls[3].val))
    /\ (op.name = "calculate_theta" /\ op.option_type \in Recognized) =>
           /\ Effective(1) = <<ctor.S, ctor.T - 1, ctor.sigma>>
           /\ Effective(2) = <<ctor.S, ctor.T, ctor.sigma>>
           /\ ret = Returned(FTimes(DaysPerYear, FSub(calls[1].val, calls[2].val)))
    /\ op.name = "calculate_vega" =>
           /\ Effective(1) = <<ctor.S, ctor.T, ctor.sigma + EpsSigma>>
           /\ Effective(2) = <<ctor.S, ctor.T, ctor.sigma>>
           /\ ret = Returned(FSub(calls[1].val, calls[2].val))

ZeroOverrideUsed ==
    /\ op.name = "black_scholes_european_call"
    /\ op.S = Arg(0) /\ op.T = NoArg /\ op.sigma # NoArg
    /\ Effective(1) = <<0, ctor.T, op.sigma[1]>>
    /\ ctor.S > 0

\* C10: on an object whose spot, strike, maturity and volatility are
\* positive, every pricer invocation the four Greeks make has a positive
\* effective spot, maturity and volatility.
GreeksStayInDomain ==
    (/\ op.name \in Greeks
     /\ ctor.S > 0 /\ ctor.K > 0 /\ ctor.T > 0 /\ ctor.sigma > 0) =>
        \A i \in 1..Len(calls) :
            calls[i].S > 0 /\ calls[i].T > 0 /\ calls[i].sigma > 0

====
